---- MODULE Spec2Model ----
(***************************************************************************)
(* A model of the OSC codec of go-osc (src/message.go): the Message        *)
(* entity, the padded-string / blob / numeric wire primitives, the         *)
(* decoder working on a bufio.Reader with an external byte counter, the    *)
(* bundle decoder and the address-pattern matcher.                         *)
(*                                                                         *)
(* Wire bytes are integers 0..255.  A Go string that goes on the wire is   *)
(* the sequence of its bytes.  An argument of a Message is a record        *)
(* [kind, val]: kind is the Go dynamic type of the interface{} value.      *)
(* An int32 is an integer.  The model checker's integers are 32 bits       *)
(* wide, so a float32 is carried as its 4-byte IEEE-754 bit pattern and    *)
(* an int64, a float64 and a Timetag as their 8-byte big-endian patterns:  *)
(* the bytes binary.Write puts on the wire and binary.Read takes off it.   *)
(***************************************************************************)
EXTENDS Integers, Sequences, FiniteSets, TLC

\* ------------------------------------------------------------------ bounds
MaxArgs == 2          \* arguments of a Message built in SpecMsg
MaxChunk == 256       \* largest number of bytes one Read of the source yields
MaxN == 120           \* element lengths tried for padBytesNeeded
MaxStrLen == 4        \* length of the strings handed to writePaddedString
MaxTags == 2          \* tag characters after the ',' in SpecDecode
MaxPayload == 8       \* payload bytes after the tag string in SpecDecode
MaxBlobInput == 7     \* bytes after the length prefix in SpecBlob
MaxPatLen == 5        \* characters of an address pattern after its "/"
MaxAddrLen == 3       \* characters of a candidate address after its "/"
MaxElems == 2         \* elements of one bundle
MaxDepth == 2         \* nesting depth of bundles

\* ----------------------------------------------------------------- helpers
Min(a, b) == IF a < b THEN a ELSE b

\* ASCII codes of the characters the codec looks at.
Ord ==
  [c \in {"/", "#", ",", "a", "b", "c", "d", "e", "f", "h", "i", "l", "n",
          "s", "t", "u", "x", "F", "N", "T",
          ".", "(", ")", "*", "{", "}", "?", "|", "\\"} |->
     CASE c = "/" -> 47 [] c = "#" -> 35 [] c = "," -> 44
       [] c = "." -> 46 [] c = "(" -> 40 [] c = ")" -> 41 [] c = "*" -> 42
       [] c = "{" -> 123 [] c = "}" -> 125 [] c = "?" -> 63 [] c = "|" -> 124
       [] c = "\\" -> 92
       [] c = "a" -> 97 [] c = "b" -> 98 [] c = "c" -> 99 [] c = "d" -> 100
       [] c = "e" -> 101 [] c = "f" -> 102 [] c = "h" -> 104 [] c = "i" -> 105
       [] c = "l" -> 108 [] c = "n" -> 110 [] c = "s" -> 115 [] c = "t" -> 116
       [] c = "u" -> 117 [] c = "x" -> 120
       [] c = "F" -> 70 [] c = "N" -> 78 [] c = "T" -> 84]

\* The bytes of a string literal given character by character.
Str(cs) == [i \in 1..Len(cs) |-> Ord[cs[i]]]

Zeros(n) == [i \in 1..n |-> 0]

\* strings.Index(str, "\x00") / the delimiter search of ReadString: the
\* 0-based index of the first byte b of s, -1 when there is none.
IndexByte(s, b) ==
  IF \E i \in 1..Len(s) : s[i] = b
  THEN (CHOOSE i \in 1..Len(s) : s[i] = b /\ \A j \in 1..(i - 1) : s[j] # b) - 1
  ELSE -1

Drop(s, k) == SubSeq(s, k + 1, Len(s))
Take(s, k) == SubSeq(s, 1, k)

\* binary.Write(buf, binary.BigEndian, v) of a signed v of w bytes: the low
\* byte last, the rest by arithmetic shift (two's complement).
RECURSIVE BigEndian(_, _)
BigEndian(v, w) ==
  IF w = 0 THEN <<>>
  ELSE Append(BigEndian((v - (v % 256)) \div 256, w - 1), v % 256)

RECURSIVE Unsigned(_)
Unsigned(bs) ==
  IF bs = <<>> THEN 0
  ELSE 256 * Unsigned(Take(bs, Len(bs) - 1)) + bs[Len(bs)]

\* The signed value binary.Read stores into an int32 variable: the first
\* byte carries the sign.
Signed(bs) ==
  LET hi == IF bs[1] >= 128 THEN bs[1] - 256 ELSE bs[1]
  IN  hi * (256 ^ (Len(bs) - 1)) + Unsigned(Drop(bs, 1))

\* ------------------------------------------------------------ padBytesNeeded
padBytesNeededOff(elementLen) == 4 - (elementLen % 4)

padBytesNeeded(elementLen) == (4 - (elementLen % 4)) % 4

\* ------------------------------------------------------------ write side
\* writePaddedString: out is what is appended to the buffer, n the returned
\* count.  The string is cut at its first null only when nullIndex > 0.
writePaddedString(str) ==
  LET nullIndex == IndexByte(str, 0)
      s1 == IF nullIndex > 0 THEN Take(str, nullIndex) ELSE str
      n == Len(s1) + 1
      numPadBytes == padBytesNeeded(n)
  IN  [out |-> s1 \o <<0>> \o Zeros(numPadBytes), n |-> n + numPadBytes]

writeBlob(data) ==
  LET lenData == Len(data)
      numPadBytes == padBytesNeeded(lenData)
  IN  [out |-> BigEndian(lenData, 4) \o data \o Zeros(numPadBytes),
       n |-> 4 + lenData + numPadBytes]

\* ------------------------------------------------------------ arguments
Arg(k, v) == [kind |-> k, val |-> v]

getTypeTagSwapped(arg) ==
  CASE arg.kind = "bool" -> IF arg.val THEN Ord["T"] ELSE Ord["F"]
    [] arg.kind = "nil" -> Ord["N"]
    [] arg.kind = "int32" -> Ord["i"]
    [] arg.kind = "float32" -> Ord["f"]
    [] arg.kind = "string" -> Ord["s"]
    [] arg.kind = "blob" -> Ord["b"]
    [] arg.kind = "int64" -> Ord["i"]
    [] arg.kind = "float64" -> Ord["d"]
    [] arg.kind = "Timetag" -> Ord["t"]
    [] OTHER -> 255

getTypeTag(arg) ==
  CASE arg.kind = "bool" -> IF arg.val THEN Ord["T"] ELSE Ord["F"]
    [] arg.kind = "nil" -> Ord["N"]
    [] arg.kind = "int32" -> Ord["i"]
    [] arg.kind = "float32" -> Ord["f"]
    [] arg.kind = "string" -> Ord["s"]
    [] arg.kind = "blob" -> Ord["b"]
    [] arg.kind = "int64" -> Ord["h"]
    [] arg.kind = "float64" -> Ord["d"]
    [] arg.kind = "Timetag" -> Ord["t"]
    [] OTHER -> 255

\* ------------------------------------------------------------ Message
\* Arguments is the slice's contents, nilArgs whether the slice is nil
\* (reflect.DeepEqual tells a nil slice from an empty one).
Message(addr, args, isNil) ==
  [Address |-> addr, Arguments |-> args, nilArgs |-> isNil]

\* NewMessage(addr, args...): a call with no variadic argument passes nil.
NewMessage(addr, args) == Message(addr, args, args = <<>>)

\* msg.Append(args...): append(nil) with nothing to add stays nil.
MsgAppend(m, args) ==
  Message(m.Address, m.Arguments \o args, m.nilArgs /\ args = <<>>)

\* msg.Arguments[len(msg.Arguments):] keeps the nil-ness of the slice.
ClearData(m) == Message(m.Address, <<>>, m.nilArgs)

Clear(m) == ClearData(Message(<<>>, m.Arguments, m.nilArgs))

Equals(m1, m2) == m1 = m2

typeTags(m) ==
  IF Len(m.Arguments) = 0 THEN <<Ord[","]>>
  ELSE <<Ord[","]>> \o [i \in 1..Len(m.Arguments) |-> getTypeTag(m.Arguments[i])]

\* Timetag.MarshalBinary: the raw 64-bit value, big-endian.
TimetagMarshalBinary(t) == t

\* The loop of MarshalBinary over the arguments from index i on, given the
\* tags and payload collected so far.
RECURSIVE MarshalArgs(_, _, _, _)
MarshalArgs(args, i, typetags, payload) ==
  IF i > Len(args) THEN [err |-> FALSE, typetags |-> typetags, payload |-> payload]
  ELSE
    LET t == args[i]
        k == t.kind
    IN  CASE k = "bool" ->
               MarshalArgs(args, i + 1,
                           Append(typetags, IF t.val THEN Ord["T"] ELSE Ord["F"]),
                           payload)
          [] k = "nil" ->
               MarshalArgs(args, i + 1, Append(typetags, Ord["N"]), payload)
          [] k = "int32" ->
               MarshalArgs(args, i + 1, Append(typetags, Ord["i"]),
                           payload \o BigEndian(t.val, 4))
          [] k = "float32" ->
               MarshalArgs(args, i + 1, Append(typetags, Ord["f"]),
                           payload \o t.val)
          [] k = "string" ->
               MarshalArgs(args, i + 1, Append(typetags, Ord["s"]),
                           payload \o writePaddedString(t.val).out)
          [] k = "blob" ->
               MarshalArgs(args, i + 1, Append(typetags, Ord["b"]),
                           payload \o writeBlob(t.val).out)
          [] k = "int64" ->
               MarshalArgs(args, i + 1, Append(typetags, Ord["h"]),
                           payload \o t.val)
          [] k = "float64" ->
               MarshalArgs(args, i + 1, Append(typetags, Ord["d"]),
                           payload \o t.val)
          [] k = "Timetag" ->
               MarshalArgs(args, i + 1, Append(typetags, Ord["t"]),
                           payload \o TimetagMarshalBinary(t.val))
          [] OTHER -> [err |-> TRUE, typetags |-> typetags, payload |-> payload]

\* Message.MarshalBinary: typetags is the tag string it writes (kept for
\* the comparison with typeTags), data the bytes returned.
MarshalBinary(m) ==
  LET r == MarshalArgs(m.Arguments, 1, <<Ord[","]>>, <<>>)
  IN  IF r.err THEN [err |-> TRUE, typetags |-> r.typetags, data |-> <<>>]
      ELSE [err |-> FALSE, typetags |-> r.typetags,
            data |-> writePaddedString(m.Address).out
                     \o writePaddedString(r.typetags).out \o r.payload]

\* ------------------------------------------------------------ bufio.Reader
\* A reader is [data, nbuf, chunk]: data are the bytes not yet consumed
\* (the buffered ones first, then those still in the source), nbuf how many
\* of them sit in the reader's buffer, chunk the most one Read of the
\* source delivers.  The buffer's capacity is taken to exceed every input.
\* Every step of a decoder is an operator that takes the results of the
\* steps before it as parameters.
NewReader(data, chunk) == [data |-> data, nbuf |-> 0, chunk |-> chunk]

\* fill: one Read of the source appended to the buffer.
fill(rd) == [rd EXCEPT !.nbuf = Min(Len(rd.data), rd.nbuf + rd.chunk)]

Buffered(rd) == rd.nbuf

Consume(rd, k) == [rd EXCEPT !.data = Drop(@, k), !.nbuf = @ - k]

\* Peek(1): fills when nothing is buffered; an error at the end of input.
PeekBuffered(r) == [err |-> r.nbuf < 1, rd |-> r]

Peek1(rd) == PeekBuffered(IF rd.nbuf < 1 THEN fill(rd) ELSE rd)

RECURSIVE FillTo(_, _)
FillTo(rd, k) ==
  IF rd.nbuf >= k \/ rd.nbuf = Len(rd.data) THEN rd ELSE FillTo(fill(rd), k)

\* ReadString(delim): up to and including the first delim, filling until it
\* is buffered; an error (and everything consumed) when there is none.
ReadStringAt(rd, idx) ==
  IF idx < 0
  THEN [err |-> TRUE, str |-> <<>>, rd |-> [rd EXCEPT !.data = <<>>, !.nbuf = 0]]
  ELSE [err |-> FALSE, str |-> Take(rd.data, idx + 1),
        rd |-> Consume(FillTo(rd, idx + 1), idx + 1)]

ReadString(rd, delim) == ReadStringAt(rd, IndexByte(rd.data, delim))

\* Read(p) with len(p) = k: bytes of the buffer only, after at most one
\* Read of the source when the buffer is empty; n may be less than k.
ReadResult(n, e, bytes, rd) == [n |-> n, err |-> e, bytes |-> bytes, rd |-> rd]

ReadBuffered(r, k) ==
  IF r.nbuf = 0 THEN ReadResult(0, TRUE, <<>>, r)
  ELSE ReadResult(Min(k, r.nbuf), FALSE, Take(r.data, Min(k, r.nbuf)),
                  Consume(r, Min(k, r.nbuf)))

Read(rd, k) ==
  IF k = 0 THEN ReadResult(0, FALSE, <<>>, rd)
  ELSE ReadBuffered(IF rd.nbuf = 0 THEN fill(rd) ELSE rd, k)

\* binary.Read of a fixed-size value of k bytes (io.ReadFull): Read is
\* repeated until k bytes are there; an error when the input ends first.
RECURSIVE binaryRead(_, _)
RECURSIVE binaryReadMore(_, _)

binaryReadJoin(r, rest) ==
  [err |-> rest.err, bytes |-> IF rest.err THEN <<>> ELSE r.bytes \o rest.bytes,
   rd |-> rest.rd]

binaryReadMore(r, k) ==
  IF r.err THEN [err |-> TRUE, bytes |-> <<>>, rd |-> r.rd]
  ELSE binaryReadJoin(r, binaryRead(r.rd, k - r.n))

binaryRead(rd, k) ==
  IF k = 0 THEN [err |-> FALSE, bytes |-> <<>>, rd |-> rd]
  ELSE binaryReadMore(Read(rd, k), k)

\* ------------------------------------------------------------ read side
StringResult(e, s, n, rd) == [err |-> e, str |-> s, n |-> n, rd |-> rd]

\* readPaddedString after the read of the padding bytes (result p).
readPaddedStringDone(r, n, p) ==
  IF p.err THEN StringResult(TRUE, <<>>, 0, p.rd)
  ELSE StringResult(FALSE, Take(r.str, Len(r.str) - 1), n, p.rd)

\* readPaddedString after reader.ReadString(0) (result r).
readPaddedStringPad(r, padLen) ==
  IF r.err THEN StringResult(TRUE, <<>>, 0, r.rd)
  ELSE IF padLen > 0
  THEN readPaddedStringDone(r, Len(r.str) + padLen, Read(r.rd, padLen))
  ELSE StringResult(FALSE, Take(r.str, Len(r.str) - 1), Len(r.str), r.rd)

readPaddedStringRead(r) == readPaddedStringPad(r, padBytesNeeded(Len(r.str)))

readPaddedString(rd) == readPaddedStringRead(ReadString(rd, 0))

BlobResult(e, blob, n, rd) == [err |-> e, blob |-> blob, n |-> n, rd |-> rd]

\* The length test of readBlob, against the reader's buffered byte count.
BlobLenInvalid(blobLen, rd) == blobLen < 1 \/ blobLen > Buffered(rd)

\* readBlob after the read of the padding bytes (result d).
readBlobDone(blob, n, d) ==
  IF d.err THEN BlobResult(TRUE, <<>>, 0, d.rd) ELSE BlobResult(FALSE, blob, n, d.rd)

\* readBlob after reader.Read(blob) (result b): blob keeps its blobLen
\* bytes, zero where Read delivered none.
readBlobPadding(blobLen, numPadBytes, b) ==
  IF b.err THEN BlobResult(TRUE, <<>>, 0, b.rd)
  ELSE IF numPadBytes > 0
  THEN readBlobDone(b.bytes \o Zeros(blobLen - b.n), 4 + blobLen + numPadBytes,
                    Read(b.rd, numPadBytes))
  ELSE BlobResult(FALSE, b.bytes \o Zeros(blobLen - b.n), 4 + blobLen, b.rd)

readBlobData(rd, blobLen) ==
  IF BlobLenInvalid(blobLen, rd) THEN BlobResult(TRUE, <<>>, 0, rd)
  ELSE readBlobPadding(blobLen, padBytesNeeded(blobLen), Read(rd, blobLen))

\* readBlob after the binary.Read of the length (result l).
readBlobLength(l) ==
  IF l.err THEN BlobResult(TRUE, <<>>, 0, l.rd)
  ELSE readBlobData(l.rd, Signed(l.bytes))

readBlob(rd) == readBlobLength(binaryRead(rd, 4))

\* NewTimetagFromTimetag: the Timetag holding the raw 64-bit value.
NewTimetagFromTimetag(tt) == tt

\* One pass of the switch in readArguments: stop tells that the function
\* returns at once (with err), otherwise args is what msg.Append gets, rd
\* the reader and adv what is added to *start.
ArgStop(e, rd) == [stop |-> TRUE, err |-> e, args |-> <<>>, rd |-> rd, adv |-> 0]
ArgRead(arg, rd, adv) ==
  [stop |-> FALSE, err |-> FALSE, args |-> <<arg>>, rd |-> rd, adv |-> adv]

readInt32(r) ==
  IF r.err THEN ArgStop(TRUE, r.rd) ELSE ArgRead(Arg("int32", Signed(r.bytes)), r.rd, 4)

readInt64(r) ==
  IF r.err THEN ArgStop(TRUE, r.rd) ELSE ArgRead(Arg("int64", r.bytes), r.rd, 8)

readFloat32(r) ==
  IF r.err THEN ArgStop(TRUE, r.rd) ELSE ArgRead(Arg("float32", r.bytes), r.rd, 4)

readFloat64(r) ==
  IF r.err THEN ArgStop(TRUE, r.rd) ELSE ArgRead(Arg("float64", r.bytes), r.rd, 8)

\* case 's': *start moves by the length of the string without its
\* terminator plus the padding of that length.
readStringArg(r) ==
  IF r.err THEN ArgStop(TRUE, r.rd)
  ELSE ArgRead(Arg("string", r.str), r.rd, Len(r.str) + padBytesNeeded(Len(r.str)))

readBlobArg(r) ==
  IF r.err THEN ArgStop(TRUE, r.rd) ELSE ArgRead(Arg("blob", r.blob), r.rd, r.n)

\* case 't': a failed read of the value returns nil.
readTimetagArg(r) ==
  IF r.err THEN ArgStop(FALSE, r.rd)
  ELSE ArgRead(Arg("Timetag", NewTimetagFromTimetag(r.bytes)), r.rd, 8)

readArgument(c, rd) ==
  CASE c = Ord["i"] -> readInt32(binaryRead(rd, 4))
    [] c = Ord["h"] -> readInt64(binaryRead(rd, 8))
    [] c = Ord["f"] -> readFloat32(binaryRead(rd, 4))
    [] c = Ord["d"] -> readFloat64(binaryRead(rd, 8))
    [] c = Ord["s"] -> readStringArg(readPaddedString(rd))
    [] c = Ord["b"] -> readBlobArg(readBlob(rd))
    [] c = Ord["t"] -> readTimetagArg(binaryRead(rd, 8))
    [] c = Ord["N"] -> ArgRead(Arg("nil", <<>>), rd, 0)
    [] c = Ord["T"] -> ArgRead(Arg("bool", TRUE), rd, 0)
    [] c = Ord["F"] -> ArgRead(Arg("bool", FALSE), rd, 0)
    [] OTHER -> ArgStop(TRUE, rd)

\* The result of readArguments: m is the message with what was appended,
\* rd the reader and start the caller's byte counter.
ArgResult(e, m, rd, start) == [err |-> e, msg |-> m, rd |-> rd, start |-> start]

\* The loop of readArguments over the tag characters from index i on.
RECURSIVE readArgumentsLoop(_, _, _, _, _)
RECURSIVE readArgumentsNext(_, _, _, _, _)

readArgumentsNext(typetags, i, m, start, a) ==
  IF a.stop THEN ArgResult(a.err, m, a.rd, start)
  ELSE readArgumentsLoop(typetags, i + 1, MsgAppend(m, a.args), a.rd, start + a.adv)

readArgumentsLoop(typetags, i, m, rd, start) ==
  IF i > Len(typetags) THEN ArgResult(FALSE, m, rd, start)
  ELSE readArgumentsNext(typetags, i, m, start, readArgument(typetags[i], rd))

\* The test on the first character of a non-empty tag string.
TagStringMalformed(typetags) == typetags[1] # Ord[","]

\* readArguments after the read of the tag string (result r).
readArgumentsTags(m, start, r) ==
  IF r.err THEN ArgResult(TRUE, m, r.rd, start)
  ELSE IF Len(r.str) = 0 THEN ArgResult(FALSE, m, r.rd, start + r.n)
  ELSE IF TagStringMalformed(r.str) THEN ArgResult(TRUE, m, r.rd, start + r.n)
  ELSE readArgumentsLoop(Drop(r.str, 1), 1, m, r.rd, start + r.n)

readArguments(m, rd, start) == readArgumentsTags(m, start, readPaddedString(rd))

\* A packet result: pkt is <<p>> for the packet returned, <<>> for nil.
PacketResult(e, pkt, rd, start) == [err |-> e, pkt |-> pkt, rd |-> rd, start |-> start]

readMessageDone(r) ==
  IF r.err THEN PacketResult(TRUE, <<>>, r.rd, r.start)
  ELSE PacketResult(FALSE, <<r.msg>>, r.rd, r.start)

\* readMessage after the read of the address (result a).
readMessageArgs(start, a) ==
  IF a.err THEN PacketResult(TRUE, <<>>, a.rd, start)
  ELSE readMessageDone(readArguments(NewMessage(a.str, <<>>), a.rd, start + a.n))

readMessage(rd, start) == readMessageArgs(start, readPaddedString(rd))

\* ------------------------------------------------------------ Bundle
bundleTagString == Str(<<"#", "b", "u", "n", "d", "l", "e">>)

\* A Bundle is its time tag and its elements in order.  The time is carried
\* as the 8 raw bytes of the time tag it was read from.
timetagToTime(timeTag) == timeTag

NewBundle(time) == [Timetag |-> time, Elements |-> <<>>]

BundleAppend(b, p) == [b EXCEPT !.Elements = Append(@, p)]

IsBundle(p) == "Elements" \in DOMAIN p

\* Bundle.MarshalBinary: the padded "#bundle", the time tag, then every
\* element's length and bytes.
RECURSIVE PacketMarshalBinary(_)
RECURSIVE ElementsMarshalBinary(_, _)
ElementsMarshalBinary(elems, i) ==
  IF i > Len(elems) THEN <<>>
  ELSE LET e == PacketMarshalBinary(elems[i])
       IN  BigEndian(Len(e), 4) \o e \o ElementsMarshalBinary(elems, i + 1)

PacketMarshalBinary(p) ==
  IF IsBundle(p)
  THEN writePaddedString(bundleTagString).out \o p.Timetag
       \o ElementsMarshalBinary(p.Elements, 1)
  ELSE MarshalBinary(p).data

\* The result of readBundle: a packet result and, for every element the
\* loop of this bundle decoded, a frame: the length read before it, how far
\* the counter *start moved over the length and the element, how many bytes
\* the reader gave out for the element, and whether it is a bundle.
BundleResult(e, pkt, rd, start, frames) ==
  [err |-> e, pkt |-> pkt, rd |-> rd, start |-> start, frames |-> frames]

Frame(length, advanced, consumed, nested) ==
  [length |-> length, advanced |-> advanced, consumed |-> consumed, nested |-> nested]

RECURSIVE readPacket(_, _, _)
RECURSIVE readPacketPeeked(_, _, _)
RECURSIVE readBundle(_, _, _)
RECURSIVE readBundleTag(_, _, _)
RECURSIVE readBundleTime(_, _, _)
RECURSIVE readBundleLoop(_, _, _, _, _)
RECURSIVE readBundleElement(_, _, _, _, _)
RECURSIVE readBundleAppend(_, _, _, _, _, _, _)

\* readPacket: the first byte, peeked, selects the decoder.
readPacketPeeked(p, start, end) ==
  IF p.err THEN PacketResult(TRUE, <<>>, p.rd, start)
  ELSE CASE p.rd.data[1] = Ord["/"] -> readMessage(p.rd, start)
         [] p.rd.data[1] = Ord["#"] -> readBundle(p.rd, start, end)
         [] OTHER -> PacketResult(TRUE, <<>>, p.rd, start)

readPacket(rd, start, end) == readPacketPeeked(Peek1(rd), start, end)

\* The loop body after readPacket (result p): the element is appended.
readBundleAppend(bundle, start, end, frames, length, before, p) ==
  IF p.err THEN BundleResult(TRUE, <<>>, p.rd, p.start, frames)
  ELSE readBundleLoop(BundleAppend(bundle, p.pkt[1]), p.rd, p.start, end,
         Append(frames, Frame(length, p.start - start, before - Len(p.rd.data),
                              IsBundle(p.pkt[1]))))

\* The loop body after the binary.Read of the element's length (result
\* l): the length is read and not used; readPacket gets the bundle's end.
readBundleElement(bundle, start, end, frames, l) ==
  IF l.err THEN BundleResult(TRUE, <<>>, l.rd, start, frames)
  ELSE readBundleAppend(bundle, start, end, frames, Signed(l.bytes),
                        Len(l.rd.data), readPacket(l.rd, start + 4, end))

\* The element loop of readBundle: for *start < end.
readBundleLoop(bundle, rd, start, end, frames) ==
  IF ~(start < end) THEN BundleResult(FALSE, <<bundle>>, rd, start, frames)
  ELSE readBundleElement(bundle, start, end, frames, binaryRead(rd, 4))

readBundleTime(start, end, tt) ==
  IF tt.err THEN BundleResult(TRUE, <<>>, tt.rd, start, <<>>)
  ELSE readBundleLoop(NewBundle(timetagToTime(tt.bytes)), tt.rd, start + 8, end, <<>>)

\* readBundle after the read of the start tag (result t).
readBundleTag(start, end, t) ==
  IF t.err THEN BundleResult(TRUE, <<>>, t.rd, start, <<>>)
  ELSE IF t.str # bundleTagString
  THEN BundleResult(TRUE, <<>>, t.rd, start + t.n, <<>>)
  ELSE readBundleTime(start + t.n, end, binaryRead(t.rd, 8))

readBundle(rd, start, end) == readBundleTag(start, end, readPaddedString(rd))

\* --------------------------------------------------------- matching
\* strings.Replace(s, old, new, -1) for a one-byte old.
RECURSIVE Replace(_, _, _)
Replace(s, old, new) ==
  IF s = <<>> THEN <<>>
  ELSE (IF Head(s) = old THEN new ELSE <<Head(s)>>) \o Replace(Tail(s), old, new)

\* The text handed to regexp.MustCompile: the pattern after the eight
\* replacements, applied one after the other in the order of the table.
getRegEx(pattern) ==
  Replace(Replace(Replace(Replace(Replace(Replace(Replace(Replace(pattern,
    Ord["."], Str(<<"\\", ".">>)),
    Ord["("], Str(<<"\\", "(">>)),
    Ord[")"], Str(<<"\\", ")">>)),
    Ord["*"], Str(<<".", "*">>)),
    Ord["{"], Str(<<"(">>)),
    Ord[","], Str(<<"|">>)),
    Ord["}"], Str(<<")">>)),
    Ord["?"], Str(<<".">>))

\* The regular expression re run over the string s. A position is the number
\* of characters of s already matched; every operator takes the set of
\* positions a match may have reached and returns the set after its part of
\* re, with the index in re where that part ends.
MatchResult(pos, next) == [pos |-> pos, next |-> next]

StepLiteral(s, P, c) == {q + 1 : q \in {p \in P : p < Len(s) /\ s[p + 1] = c}}

StepAny(s, P) == {q + 1 : q \in {p \in P : p < Len(s)}}

RECURSIVE matchAlt(_, _, _, _)
RECURSIVE matchAltNext(_, _, _, _)
RECURSIVE matchConcat(_, _, _, _)
RECURSIVE matchConcatNext(_, _, _)
RECURSIVE matchAtom(_, _, _, _)
RECURSIVE matchAtomOnce(_, _, _, _)
RECURSIVE matchQuantifier(_, _, _, _, _)
RECURSIVE matchStar(_, _, _, _)
RECURSIVE matchStarNext(_, _, _, _, _)

matchGroupClose(r) == MatchResult(r.pos, r.next + 1)

\* One atom: an escaped character, a group, any character, a literal.
matchAtomOnce(re, i, s, P) ==
  CASE re[i] = Ord["\\"] -> MatchResult(StepLiteral(s, P, re[i + 1]), i + 2)
    [] re[i] = Ord["("] -> matchGroupClose(matchAlt(re, i + 1, s, P))
    [] re[i] = Ord["."] -> MatchResult(StepAny(s, P), i + 1)
    [] OTHER -> MatchResult(StepLiteral(s, P, re[i]), i + 1)

\* The atom at i any number of times: the positions closed under one more run.
matchStarNext(re, i, s, P, Q) == IF Q = P THEN P ELSE matchStar(re, i, s, Q)

matchStar(re, i, s, P) ==
  matchStarNext(re, i, s, P, P \cup matchAtomOnce(re, i, s, P).pos)

matchQuantifier(re, i, s, P, a) ==
  IF a.next <= Len(re) /\ re[a.next] = Ord["*"]
  THEN MatchResult(matchStar(re, i, s, P), a.next + 1)
  ELSE a

matchAtom(re, i, s, P) == matchQuantifier(re, i, s, P, matchAtomOnce(re, i, s, P))

matchConcatNext(re, s, a) == matchConcat(re, a.next, s, a.pos)

matchConcat(re, i, s, P) ==
  IF i > Len(re) \/ re[i] = Ord["|"] \/ re[i] = Ord[")"]
  THEN MatchResult(P, i)
  ELSE matchConcatNext(re, s, matchAtom(re, i, s, P))

matchAltJoin(pos, r) == MatchResult(pos \cup r.pos, r.next)

matchAltNext(re, s, P, c) ==
  IF c.next <= Len(re) /\ re[c.next] = Ord["|"]
  THEN matchAltJoin(c.pos, matchAlt(re, c.next + 1, s, P))
  ELSE c

matchAlt(re, i, s, P) == matchAltNext(re, s, P, matchConcat(re, i, s, P))

\* Regexp.MatchString: whether s contains any match of re, so a match may
\* start at any position of s and end at any position.
MatchString(re, s) == matchAlt(re, 1, s, 0..Len(s)).pos # {}

Match(m, addr) == MatchString(getRegEx(m.Address), addr)

\* ------------------------------------------------------------ state
VARIABLES
  pc,          \* the step the scenario is at
  msg,         \* the Message operated on
  wire,        \* the bytes produced by an encoder, or handed to a decoder
  chunk,       \* the chunk size of the source under the bufio.Reader
  decoded,     \* the result of the decoder
  bundle,      \* the Bundle that was encoded
  tags,        \* the tag string put into the decoder's input
  payload,     \* the bytes that follow the tag string in the input
  elementLen,  \* the argument of padBytesNeeded
  padLen,      \* its result
  str,         \* the argument of writePaddedString
  written,     \* its result
  addr,        \* the address handed to Message.Match
  matched      \* its result

vars == <<pc, msg, wire, chunk, decoded, bundle, tags, payload, elementLen,
          padLen, str, written, addr, matched>>

NoMessage == Message(<<>>, <<>>, TRUE)
NoResult == PacketResult(FALSE, <<>>, NewReader(<<>>, 0), 0)
NoWritten == [out |-> <<>>, n |-> 0]

\* The chunk sizes tried: byte by byte, out of step with the 4-byte words,
\* and the whole input in one Read.
ChunkSizes == {1, 3, MaxChunk}

One32 == <<63, 128, 0, 0>>
One64 == <<63, 240, 0, 0, 0, 0, 0, 0>>
Immediate == <<0, 0, 0, 0, 0, 0, 0, 1>>

\* The sequences over S of length at most k.
SeqsUpTo(S, k) == UNION {[1..n -> S] : n \in 0..k}

\* The variables a scenario does not use.
NoCodec == wire = <<>> /\ chunk = 0 /\ decoded = NoResult
NoBundle == bundle = NewBundle(Immediate)
NoInput == tags = <<>> /\ payload = <<>>
NoPad == elementLen = 0 /\ padLen = 0
NoWrite == str = <<>> /\ written = NoWritten
NoMatch == addr = <<>> /\ matched = FALSE

\* ------------------------------------------------------------ SpecMsg
\* A Message is built (NewMessage, Append, ClearData, Clear), serialized by
\* MarshalBinary and read back by readPacket from a fresh bufio.Reader.
Addresses == {Str(<<"/">>), Str(<<"/", "a">>)}

ArgPool ==
  { Arg("bool", TRUE), Arg("bool", FALSE), Arg("nil", <<>>),
    Arg("int32", -2), Arg("int64", <<255, 255, 255, 255, 255, 255, 255, 254>>),
    Arg("float32", One32), Arg("float64", One64),
    Arg("string", <<>>), Arg("string", Str(<<"a", "b", "c">>)),
    Arg("blob", <<>>), Arg("blob", <<7>>),
    Arg("Timetag", Immediate),
    Arg("int", 1) }

SupportedKinds ==
  {"bool", "nil", "int32", "int64", "float32", "float64", "string", "blob", "Timetag"}

Supported(m) == \A i \in 1..Len(m.Arguments) : m.Arguments[i].kind \in SupportedKinds

ArgLists(k) == SeqsUpTo(ArgPool, k)

InitMsg ==
  /\ pc = "built"
  /\ \E a \in Addresses, args \in ArgLists(MaxArgs) : msg = NewMessage(a, args)
  /\ NoCodec /\ NoBundle /\ NoInput /\ NoPad /\ NoWrite /\ NoMatch

AppendStep ==
  /\ pc = "built"
  /\ \E args \in ArgLists(MaxArgs) :
       /\ Len(msg.Arguments) + Len(args) <= MaxArgs
       /\ msg' = MsgAppend(msg, args)
  /\ UNCHANGED <<pc, wire, chunk, decoded, bundle, tags, payload, elementLen,
                 padLen, str, written, addr, matched>>

ClearDataStep ==
  /\ pc = "built"
  /\ msg' = ClearData(msg)
  /\ UNCHANGED <<pc, wire, chunk, decoded, bundle, tags, payload, elementLen,
                 padLen, str, written, addr, matched>>

ClearStep ==
  /\ pc = "built"
  /\ msg' = Clear(msg)
  /\ UNCHANGED <<pc, wire, chunk, decoded, bundle, tags, payload, elementLen,
                 padLen, str, written, addr, matched>>

MarshalStep ==
  /\ pc = "built"
  /\ pc' = IF MarshalBinary(msg).err THEN "unsupported" ELSE "encoded"
  /\ wire' = MarshalBinary(msg).data
  /\ UNCHANGED <<msg, chunk, decoded, bundle, tags, payload, elementLen,
                 padLen, str, written, addr, matched>>

ReadStep ==
  /\ pc = "encoded"
  /\ \E c \in ChunkSizes :
       /\ chunk' = c
       /\ decoded' = readPacket(NewReader(wire, c), 0, Len(wire))
  /\ pc' = "decoded"
  /\ UNCHANGED <<msg, wire, bundle, tags, payload, elementLen, padLen, str,
                 written, addr, matched>>

NextMsg == AppendStep \/ ClearDataStep \/ ClearStep \/ MarshalStep \/ ReadStep

SpecMsg == InitMsg /\ [][NextMsg]_vars

\* ------------------------------------------------------------ SpecPad
\* padBytesNeeded is called with an element length.
InitPad ==
  /\ pc = "call"
  /\ elementLen \in 0..MaxN /\ padLen = 0
  /\ msg = NoMessage
  /\ NoCodec /\ NoBundle /\ NoInput /\ NoWrite /\ NoMatch

PadStep ==
  /\ pc = "call"
  /\ padLen' = padBytesNeeded(elementLen)
  /\ pc' = "padded"
  /\ UNCHANGED <<msg, wire, chunk, decoded, bundle, tags, payload, elementLen,
                 str, written, addr, matched>>

NextPad == PadStep

SpecPad == InitPad /\ [][NextPad]_vars

\* ------------------------------------------------------------ SpecWrite
\* writePaddedString is called with a string that may hold null bytes.
StrBytes == {0, Ord["a"], Ord["b"]}

InitWrite ==
  /\ pc = "call"
  /\ str \in SeqsUpTo(StrBytes, MaxStrLen) /\ written = NoWritten
  /\ msg = NoMessage
  /\ NoCodec /\ NoBundle /\ NoInput /\ NoPad /\ NoMatch

WriteStep ==
  /\ pc = "call"
  /\ written' = writePaddedString(str)
  /\ pc' = "written"
  /\ UNCHANGED <<msg, wire, chunk, decoded, bundle, tags, payload, elementLen,
                 padLen, str, addr, matched>>

NextWrite == WriteStep

SpecWrite == InitWrite /\ [][NextWrite]_vars

\* ------------------------------------------------------------ SpecDecode
\* readMessage is handed an input made of the padded address "/", a padded
\* tag string and some payload bytes, which may end anywhere.
TagBytes == {Ord[c] : c \in {"i", "h", "f", "d", "s", "b", "t", "T", "F", "N"}}

TagAlphabet == TagBytes \cup {Ord["x"]}

TagStrings ==
  {<<>>} \cup {<<Ord[","]>> \o t : t \in SeqsUpTo(TagAlphabet, MaxTags)}
         \cup {<<c>> : c \in TagAlphabet}

PayloadBytes == {0, 1}

InitDecode ==
  /\ pc = "input"
  /\ tags \in TagStrings
  /\ payload \in SeqsUpTo(PayloadBytes, MaxPayload)
  /\ wire = writePaddedString(Str(<<"/">>)).out \o writePaddedString(tags).out
            \o payload
  /\ chunk \in ChunkSizes /\ decoded = NoResult
  /\ msg = NoMessage
  /\ NoBundle /\ NoPad /\ NoWrite /\ NoMatch

ReadMessageStep ==
  /\ pc = "input"
  /\ decoded' = readMessage(NewReader(wire, chunk), 0)
  /\ pc' = "decoded"
  /\ UNCHANGED <<msg, wire, chunk, bundle, tags, payload, elementLen, padLen,
                 str, written, addr, matched>>

NextDecode == ReadMessageStep

SpecDecode == InitDecode /\ [][NextDecode]_vars

\* ------------------------------------------------------------ SpecBlob
\* readBlob is handed a length prefix and some bytes after it, through a
\* reader whose source delivers chunk bytes per Read.
BlobBytes == {0, 7}

InitBlob ==
  /\ pc = "input"
  /\ payload \in SeqsUpTo(BlobBytes, MaxBlobInput)
  /\ \E blobLen \in -1..(MaxBlobInput + 1) : wire = BigEndian(blobLen, 4) \o payload
  /\ chunk \in ChunkSizes /\ decoded = NoResult
  /\ tags = <<>> /\ msg = NoMessage
  /\ NoBundle /\ NoPad /\ NoWrite /\ NoMatch

ReadBlobStep ==
  /\ pc = "input"
  /\ decoded' = readBlob(NewReader(wire, chunk))
  /\ pc' = "decoded"
  /\ UNCHANGED <<msg, wire, chunk, bundle, tags, payload, elementLen, padLen,
                 str, written, addr, matched>>

NextBlob == ReadBlobStep

SpecBlob == InitBlob /\ [][NextBlob]_vars

\* ------------------------------------------------------------ SpecBundle
\* A well-formed bundle (messages and nested bundles) is serialized and
\* read back by readBundle with start = 0 and end = the buffer's length.
Slash == Str(<<"/">>)

MsgPool ==
  { NewMessage(Slash, <<>>),
    NewMessage(Slash, <<Arg("int32", 5)>>),
    NewMessage(Slash, <<Arg("string", <<>>)>>),
    NewMessage(Slash, <<Arg("string", Str(<<"a", "b", "c">>))>>) }

RECURSIVE Bundles(_)
Bundles(depth) ==
  IF depth = 0 THEN {}
  ELSE {[Timetag |-> Immediate, Elements |-> es] :
          es \in SeqsUpTo(MsgPool \cup Bundles(depth - 1), MaxElems)}

InitBundle ==
  /\ pc = "built"
  /\ bundle \in Bundles(MaxDepth)
  /\ msg = NoMessage
  /\ NoCodec /\ NoInput /\ NoPad /\ NoWrite /\ NoMatch

MarshalBundleStep ==
  /\ pc = "built"
  /\ wire' = PacketMarshalBinary(bundle)
  /\ pc' = "encoded"
  /\ UNCHANGED <<msg, chunk, decoded, bundle, tags, payload, elementLen,
                 padLen, str, written, addr, matched>>

ReadBundleStep ==
  /\ pc = "encoded"
  /\ \E c \in ChunkSizes :
       /\ chunk' = c
       /\ decoded' = readBundle(NewReader(wire, c), 0, Len(wire))
  /\ pc' = "decoded"
  /\ UNCHANGED <<msg, wire, bundle, tags, payload, elementLen, padLen, str,
                 written, addr, matched>>

NextBundle == MarshalBundleStep \/ ReadBundleStep

SpecBundle == InitBundle /\ [][NextBundle]_vars

\* ------------------------------------------------------------ SpecMatch
\* Message.Match is called on a Message whose Address is an address pattern.
PatChars == {Ord[c] : c \in {"a", ".", "?", "*", "{", ",", "}"}}

AddrChars == {Ord[c] : c \in {"a", "b", "."}}

\* Braces are balanced and not nested, a ',' stands only between braces, and
\* the alternatives between braces are literal characters.
RECURSIVE WellFormedFrom(_, _, _)
WellFormedFrom(p, i, inBrace) ==
  IF i > Len(p) THEN ~inBrace
  ELSE CASE p[i] = Ord["{"] -> ~inBrace /\ WellFormedFrom(p, i + 1, TRUE)
         [] p[i] = Ord["}"] -> inBrace /\ WellFormedFrom(p, i + 1, FALSE)
         [] p[i] = Ord[","] -> inBrace /\ WellFormedFrom(p, i + 1, inBrace)
         [] p[i] = Ord["?"] \/ p[i] = Ord["*"] ->
              ~inBrace /\ WellFormedFrom(p, i + 1, inBrace)
         [] OTHER -> WellFormedFrom(p, i + 1, inBrace)

Patterns ==
  {Slash \o b : b \in {q \in SeqsUpTo(PatChars, MaxPatLen) : WellFormedFrom(q, 1, FALSE)}}

Candidates == {Slash \o a : a \in SeqsUpTo(AddrChars, MaxAddrLen)}

InitMatch ==
  /\ pc = "call"
  /\ msg \in {NewMessage(p, <<>>) : p \in Patterns}
  /\ addr \in Candidates /\ matched = FALSE
  /\ NoCodec /\ NoBundle /\ NoInput /\ NoPad /\ NoWrite

MatchStep ==
  /\ pc = "call"
  /\ matched' = Match(msg, addr)
  /\ pc' = "matched"
  /\ UNCHANGED <<msg, wire, chunk, decoded, bundle, tags, payload, elementLen,
                 padLen, str, written, addr>>

NextMatch == MatchStep

SpecMatch == InitMatch /\ [][NextMatch]_vars

\* ============================================================ claims
\* The tag string MarshalBinary wrote: the second padded string of w.
WrittenTags(w) ==
  readPaddedString(readPaddedString(NewReader(w, Len(w) + 1)).rd).str

\* The reader got the whole input in its first fill (a datagram).
WholeInput == chunk >= Len(wire)

\* The message has the form NewMessage(addr, args...) gives it: a
\* non-empty address, and a nil argument slice exactly when there are no
\* arguments.
AsConstructed(m) == m.Address # <<>> /\ (m.nilArgs <=> m.Arguments = <<>>)

\* C1: a Message built from an address and supported arguments (an empty
\* blob included), serialized by MarshalBinary and read back by readPacket,
\* is decoded without error into a Message equal to the original.
C1_RoundTrip ==
  (pc = "decoded" /\ Supported(msg) /\ AsConstructed(msg) /\ WholeInput)
    => (~decoded.err /\ decoded.pkt # <<>> /\ Equals(decoded.pkt[1], msg))

\* The fixed tag character of an argument value, as the data model states it.
TagOf(arg) ==
  CASE arg.kind = "bool" /\ arg.val -> Ord["T"]
    [] arg.kind = "bool" /\ ~arg.val -> Ord["F"]
    [] arg.kind = "nil" -> Ord["N"]
    [] arg.kind = "int32" -> Ord["i"]
    [] arg.kind = "int64" -> Ord["h"]
    [] arg.kind = "float32" -> Ord["f"]
    [] arg.kind = "float64" -> Ord["d"]
    [] arg.kind = "string" -> Ord["s"]
    [] arg.kind = "blob" -> Ord["b"]
    [] arg.kind = "Timetag" -> Ord["t"]

\* C6: for every Message reached by NewMessage, Append, ClearData and Clear
\* with supported arguments, typeTags() is ',' followed by one tag per
\* argument in order under the fixed mapping, is exactly ',' for an empty
\* argument list, and is the tag string MarshalBinary writes; the tags
\* re-derived from the message decoded from those bytes (the whole packet
\* in the reader, no decode error) are that tag string again.
C6_TypeTagDerivation ==
  Supported(msg) =>
    /\ typeTags(msg) = <<Ord[","]>>
                         \o [i \in 1..Len(msg.Arguments) |-> TagOf(msg.Arguments[i])]
    /\ (msg.Arguments = <<>> => typeTags(msg) = <<Ord[","]>>)
    /\ typeTags(msg) = MarshalBinary(msg).typetags
    /\ (pc \in {"encoded", "decoded"} => typeTags(msg) = WrittenTags(wire))
    /\ (pc = "decoded" /\ WholeInput /\ ~decoded.err
          => typeTags(decoded.pkt[1]) = WrittenTags(wire))

\* A message with an int64 and another argument was encoded and decoded.
C6_Witness ==
  /\ pc = "decoded" /\ WholeInput /\ ~decoded.err
  /\ Len(msg.Arguments) >= 2
  /\ \E i \in 1..Len(msg.Arguments) : msg.Arguments[i].kind = "int64"
  /\ typeTags(decoded.pkt[1]) = typeTags(msg)

\* C7: for every n >= 0, padBytesNeeded(n) is between 0 and 3 and
\* n + padBytesNeeded(n) is a multiple of 4.
C7_PaddingInvariant ==
  pc = "padded" => (padLen \in 0..3 /\ (elementLen + padLen) % 4 = 0)

\* padBytesNeeded returned 0 for a positive multiple of 4.
C7_Witness == pc = "padded" /\ elementLen > 0 /\ elementLen % 4 = 0 /\ padLen = 0

\* What the claim has writePaddedString write: the string up to its first
\* null byte, one null, zeros up to a multiple of 4.
TruncatedAtNull(s) == IF IndexByte(s, 0) >= 0 THEN Take(s, IndexByte(s, 0)) ELSE s

PaddedForm(s) == s \o <<0>> \o Zeros((4 - ((Len(s) + 1) % 4)) % 4)

\* C10: writePaddedString(s) writes s up to its first null byte (at any
\* position, 0 included), one null terminator and zero bytes up to a
\* multiple of 4 (at least 4), and returns the number of bytes it wrote.
C10_WritePaddedString ==
  pc = "written" =>
    /\ written.out = PaddedForm(TruncatedAtNull(str))
    /\ Len(written.out) % 4 = 0 /\ Len(written.out) >= 4
    /\ written.n = Len(written.out)

\* The whole-string reading of an address pattern. GlobFrom gives the
\* positions of the address a reached from the positions P by the part of the
\* pattern p that starts at index i.
LiteralEnds(lit, a, P) ==
  {q + Len(lit) :
     q \in {x \in P : x + Len(lit) <= Len(a) /\ SubSeq(a, x + 1, x + Len(lit)) = lit}}

\* The index of the '}' that closes the '{' at index i.
ClosingBrace(p, i) ==
  CHOOSE j \in (i + 1)..Len(p) :
    p[j] = Ord["}"] /\ \A k \in (i + 1)..(j - 1) : p[k] # Ord["}"]

\* The alternatives written between the '{' at i and the '}' at j.
Alternatives(p, i, j) ==
  {SubSeq(p, x + 1, y - 1) :
     <<x, y>> \in {xy \in (i..j) \X (i..j) :
                     /\ xy[1] < xy[2]
                     /\ xy[1] = i \/ p[xy[1]] = Ord[","]
                     /\ xy[2] = j \/ p[xy[2]] = Ord[","]
                     /\ \A k \in (xy[1] + 1)..(xy[2] - 1) : p[k] # Ord[","]}}

RECURSIVE GlobFrom(_, _, _, _)
GlobFrom(p, i, a, P) ==
  IF i > Len(p) THEN P
  ELSE CASE p[i] = Ord["?"] -> GlobFrom(p, i + 1, a, {q + 1 : q \in {x \in P : x < Len(a)}})
         [] p[i] = Ord["*"] ->
              GlobFrom(p, i + 1, a, {q \in 0..Len(a) : \E x \in P : x <= q})
         [] p[i] = Ord["{"] ->
              GlobFrom(p, ClosingBrace(p, i) + 1, a,
                       UNION {LiteralEnds(alt, a, P) :
                                alt \in Alternatives(p, i, ClosingBrace(p, i))})
         [] OTHER -> GlobFrom(p, i + 1, a, LiteralEnds(<<p[i]>>, a, P))

Glob(p, a) == Len(a) \in GlobFrom(p, 1, a, {0})

\* C2: Match(a) on a Message whose Address is the pattern p is true exactly
\* when the whole address a, from its first character to its last, is
\* generated by p ('?' one character, '*' any number of characters, '{x,y}'
\* one of the alternatives).
C2_WholeString == pc = "matched" => (matched <=> Glob(msg.Address, addr))

\* What one argument tagged c takes from the head of the payload p: missing
\* when p ends before the value is there (a fixed-width value cut short, a
\* string without its terminator, a blob without its length or its bytes),
\* stop when decoding cannot go past it, size the bytes it takes otherwise
\* (padding that is not there does not count as missing).
Taken(missing, stop, size) == [missing |-> missing, stop |-> stop, size |-> size]

Fixed(width, p) ==
  IF Len(p) < width THEN Taken(TRUE, TRUE, 0) ELSE Taken(FALSE, FALSE, width)

StringTaken(p, idx) ==
  IF idx < 0 THEN Taken(TRUE, TRUE, 0)
  ELSE Taken(FALSE, FALSE, Min(Len(p), idx + 1 + ((4 - ((idx + 1) % 4)) % 4)))

BlobTaken(p, blobLen) ==
  IF blobLen < 1 THEN Taken(FALSE, TRUE, 0)
  ELSE IF Len(p) - 4 < blobLen THEN Taken(TRUE, TRUE, 0)
  ELSE Taken(FALSE, FALSE, Min(Len(p), 4 + blobLen + ((4 - (blobLen % 4)) % 4)))

ArgTaken(c, p) ==
  CASE c \in {Ord["i"], Ord["f"]} -> Fixed(4, p)
    [] c \in {Ord["h"], Ord["d"], Ord["t"]} -> Fixed(8, p)
    [] c \in {Ord["T"], Ord["F"], Ord["N"]} -> Taken(FALSE, FALSE, 0)
    [] c = Ord["s"] -> StringTaken(p, IndexByte(p, 0))
    [] c = Ord["b"] ->
         IF Len(p) < 4 THEN Taken(TRUE, TRUE, 0) ELSE BlobTaken(p, Signed(Take(p, 4)))
    [] OTHER -> Taken(FALSE, TRUE, 0)

\* The input ends before the payload of some argument named in ts is there.
RECURSIVE PayloadMissing(_, _)
RECURSIVE PayloadMissingAfter(_, _, _)
PayloadMissingAfter(ts, p, t) ==
  IF t.stop THEN t.missing ELSE PayloadMissing(Drop(ts, 1), Drop(p, t.size))

PayloadMissing(ts, p) ==
  IF ts = <<>> THEN FALSE ELSE PayloadMissingAfter(ts, p, ArgTaken(ts[1], p))

\* C3: when the input ends before the payload of some tagged argument (of
\* kind i, h, f, d, s, b or t) is fully present, readMessage returns an
\* error and no Message.
C3_NoPartialResult ==
  (pc = "decoded" /\ WholeInput /\ tags # <<>> /\ tags[1] = Ord[","]
     /\ PayloadMissing(Drop(tags, 1), payload))
    => (decoded.err /\ decoded.pkt = <<>>)

\* C5: readMessage succeeds with zero arguments on an empty tag string and
\* on a bare ','; it returns an error and no Message when the first tag
\* character is not ',', and when a character after the ',' is outside
\* {i,h,f,d,s,b,t,T,F,N}.
C5_TagValidation ==
  (pc = "decoded" /\ WholeInput) =>
    /\ (tags \in {<<>>, <<Ord[","]>>}
          => ~decoded.err /\ decoded.pkt = <<NewMessage(Slash, <<>>)>>)
    /\ (tags # <<>> /\ tags[1] # Ord[","] => decoded.err /\ decoded.pkt = <<>>)
    /\ ((tags # <<>> /\ tags[1] = Ord[","]
           /\ \E i \in 2..Len(tags) : tags[i] \notin TagBytes)
          => decoded.err /\ decoded.pkt = <<>>)

\* C4: readBlob fails when the length L is non-positive or exceeds the
\* bytes that remain in the input after the length prefix, and returns
\* exactly the L blob bytes when they and their padding are in the input,
\* however many bytes the reader has buffered.
C4_BlobLength ==
  pc = "decoded" =>
    LET blobLen == Signed(Take(wire, 4))
        remaining == Len(wire) - 4
    IN  /\ (blobLen < 1 \/ blobLen > remaining) => decoded.err
        /\ (blobLen >= 1 /\ blobLen + ((4 - (blobLen % 4)) % 4) <= remaining)
             => (~decoded.err /\ decoded.blob = SubSeq(wire, 5, 4 + blobLen))

\* C8: readBundle on a well-formed bundle, start = 0 and end = the buffer's
\* length, ends without error and with *start = end, holds all elements in
\* wire order, and after each element *start has moved by 4 plus the
\* element's declared length.
C8_BundleFraming ==
  (pc = "decoded" /\ WholeInput) =>
    /\ ~decoded.err
    /\ decoded.start = Len(wire)
    /\ decoded.pkt # <<>> /\ decoded.pkt[1].Elements = bundle.Elements
    /\ \A i \in 1..Len(decoded.frames) :
         decoded.frames[i].advanced = 4 + decoded.frames[i].length

\* C9: a nested bundle takes exactly the bytes its length prefix declares,
\* and the elements that follow it on the wire are appended to the
\* enclosing bundle, not to the nested one.
C9_NestedBound ==
  (pc = "decoded" /\ WholeInput /\ ~decoded.err) =>
    /\ \A i \in 1..Len(decoded.frames) :
         decoded.frames[i].nested
           => decoded.frames[i].consumed = decoded.frames[i].length
    /\ Len(decoded.pkt[1].Elements) = Len(bundle.Elements)
    /\ \A i \in 1..Len(bundle.Elements) :
         IsBundle(bundle.Elements[i])
           => /\ IsBundle(decoded.pkt[1].Elements[i])
              /\ Len(decoded.pkt[1].Elements[i].Elements)
                   = Len(bundle.Elements[i].Elements)

====
